---- MODULE Spec2Model ----
(***************************************************************************)
(* Offline multisig transaction lifecycle of serum:                        *)
(*   src/src/main.rs                the multisig CLI (build / submit)      *)
(*   src/solana-signer/src/main.rs  the signer tool                        *)
(*                                                                         *)
(* One invocation of a binary runs at a time.  pc is the position of the   *)
(* running handler; every network or device call is answered by the        *)
(* environment with a nondeterministic choice.                             *)
(***************************************************************************)
EXTENDS Integers, Sequences, FiniteSets, TLC

(***************************************************************************)
(* Bounds of the model.                                                    *)
(***************************************************************************)
MaxNonce == 1          \* nonce values (blockhashes) are 0..MaxNonce
MaxAmount == 23        \* --amount is n / 10^k with n in 0..MaxAmount
MaxScale == 1          \*                    and k in 0..MaxScale
MaxDecimals == 2       \* decimals of a mint are 0..MaxDecimals
MaxBalance == 3        \* a balance is bn / 10^bk with bn in 0..MaxBalance
MaxOwners == 2         \* --signers lists at most MaxOwners keys
MaxThreshold == 3      \* --threshold is 0..MaxThreshold
MaxAccs == 3           \* a proposal records at most MaxAccs descriptors
MaxSubmits == 3        \* submissions the network log keeps
KeyLen == 1            \* bytes of a public key in the model (32 on chain)
HashLen == 1           \* bytes of a hash in the model (32 on chain)

(***************************************************************************)
(* Program constants.                                                      *)
(***************************************************************************)
MantBits == 53         \* f64 significand width
AccountSpace == 500    \* space of the created account
TransferTag == 3       \* TokenInstruction::Transfer
AdvanceNonceTag == 4   \* SystemInstruction::AdvanceNonceAccount
CreateAccountTag == 0  \* SystemInstruction::CreateAccount
Pad == 64              \* the base64 padding character '='

SystemProgram == 0
RecentBlockhashes == 1
RentSysvar == 2
TokenProgram == 3
Pid == 4

\* The keys the command lines, the key generator and the chain draw from.
Signers == {10, 11}
NonceAccounts == {12}
Multisigs == {13}
Transactions == {14}
FromAccounts == {15}
ToAccounts == {16}
Owners == {10, 11, 17}
FreshKeys == {20, 21}
Mints == {40, 41}
RentLamports == {5}

\* Option<T>: None is the empty sequence, Some(x) the sequence of x.
NoneV == <<>>
Some(x) == <<x>>

(***************************************************************************)
(* Sequence and integer helpers.                                           *)
(***************************************************************************)
RECURSIVE Pow(_, _)
Pow(b, e) == IF e = 0 THEN 1 ELSE b * Pow(b, e - 1)

RECURSIVE Concat(_)
Concat(ss) == IF ss = <<>> THEN <<>> ELSE Head(ss) \o Concat(Tail(ss))

Range(s) == {s[i] : i \in DOMAIN s}

RECURSIVE SetToSeq(_)
SetToSeq(S) ==
  IF S = {} THEN <<>>
  ELSE LET m == CHOOSE x \in S : \A y \in S : x <= y
       IN  <<m>> \o SetToSeq(S \ {m})

IndexOf(s, x) == CHOOSE i \in DOMAIN s : s[i] = x /\ \A j \in 1..(i - 1) : s[j] # x

Take(s, n) == SubSeq(s, 1, n)
Drop(s, n) == SubSeq(s, n + 1, Len(s))

SeqsUpTo(S, n) == UNION {[1..k -> S] : k \in 0..n}

(***************************************************************************)
(* IEEE-754 binary64, non-negative finite values.  A value is zero or      *)
(* mant * 2^exp with mant a sequence of MantBits bits, most significant    *)
(* first, the first bit 1.                                                 *)
(***************************************************************************)
F64Zero == [zero |-> TRUE, mant |-> <<>>, exp |-> 0]

RECURSIVE IntBits(_)
IntBits(n) == IF n = 0 THEN <<>> ELSE Append(IntBits(n \div 2), n % 2)

RECURSIVE BitsToInt(_)
BitsToInt(bits) ==
  IF bits = <<>> THEN 0
  ELSE 2 * BitsToInt(Take(bits, Len(bits) - 1)) + bits[Len(bits)]

\* The bits of a sequence of base-16 digits, and the digits of a sequence of
\* bits (padded with leading zeros to a multiple of four).
BitsOfLimbs(limbs) ==
  [i \in 1..(4 * Len(limbs)) |->
     (limbs[((i - 1) \div 4) + 1] \div Pow(2, 3 - ((i - 1) % 4))) % 2]

LimbsOfBits(bits) ==
  LET pad == (4 - (Len(bits) % 4)) % 4
      b   == [i \in 1..(pad + Len(bits)) |-> IF i <= pad THEN 0 ELSE bits[i - pad]]
  IN  [j \in 1..(Len(b) \div 4) |->
         8 * b[4 * j - 3] + 4 * b[4 * j - 2] + 2 * b[4 * j - 1] + b[4 * j]]

StripZeros(bits) ==
  IF \A i \in DOMAIN bits : bits[i] = 0 THEN <<>>
  ELSE LET first == CHOOSE i \in DOMAIN bits :
                      bits[i] = 1 /\ \A j \in 1..(i - 1) : bits[j] = 0
       IN  SubSeq(bits, first, Len(bits))

\* bits + 1; the result is one bit longer when every bit of bits is 1.
IncBits(bits) ==
  IF \A i \in DOMAIN bits : bits[i] = 1
  THEN <<1>> \o [i \in DOMAIN bits |-> 0]
  ELSE LET last == CHOOSE i \in DOMAIN bits :
                     bits[i] = 0 /\ \A j \in (i + 1)..Len(bits) : bits[j] = 1
       IN  [i \in DOMAIN bits |-> IF i < last THEN bits[i] ELSE IF i = last THEN 1 ELSE 0]

\* Round the exact value bits * 2^exp (bits starts with 1 and is longer than
\* MantBits; its last bit may stand for any non-zero rest) to MantBits bits,
\* to nearest, ties to even.
RoundNearestEven(bits, exp) ==
  LET drop   == Len(bits) - MantBits
      kept   == Take(bits, MantBits)
      rest   == Drop(bits, MantBits)
      guard  == rest # <<>> /\ rest[1] = 1
      sticky == \E i \in 2..Len(rest) : rest[i] = 1
      up     == guard /\ (sticky \/ kept[MantBits] = 1)
      inc    == IncBits(kept)
  IN  IF ~up THEN [zero |-> FALSE, mant |-> kept, exp |-> exp + drop]
      ELSE IF Len(inc) = MantBits
           THEN [zero |-> FALSE, mant |-> inc, exp |-> exp + drop]
           ELSE [zero |-> FALSE, mant |-> Take(inc, MantBits), exp |-> exp + drop + 1]

\* Long division in base 16: count more digits of the fraction r / d (r < d),
\* and the remainder left.
RECURSIVE DivLimbs(_, _, _, _)
DivLimbs(r, d, limbs, count) ==
  IF Len(limbs) = count THEN [limbs |-> limbs, rem |-> r]
  ELSE DivLimbs((16 * r) % d, d, Append(limbs, (16 * r) \div d), count)

\* The f64 nearest to n / d, 0 < d < 2^27 (what parsing the decimal text of
\* n / 10^k gives, and what dividing n as f64 by 10^k as f64 gives).
F64FromRatio(n, d) ==
  IF n = 0 THEN F64Zero
  ELSE LET count == ((MantBits + 2 + 27) \div 4) + 1
           frac  == DivLimbs(n % d, d, <<>>, count)
           exact == StripZeros(IntBits(n \div d) \o BitsOfLimbs(frac.limbs))
       IN  RoundNearestEven(Append(exact, IF frac.rem > 0 THEN 1 ELSE 0),
                            -(4 * count) - 1)

\* limbs * p + carry for a small integer p, in base 16, most significant
\* digit first.
RECURSIVE MulLimbs(_, _, _, _)
MulLimbs(limbs, p, carry, acc) ==
  IF limbs = <<>>
  THEN IF carry = 0 THEN acc ELSE LimbsOfBits(IntBits(carry)) \o acc
  ELSE LET v == limbs[Len(limbs)] * p + carry
       IN  MulLimbs(Take(limbs, Len(limbs) - 1), p, v \div 16, <<v % 16>> \o acc)

\* x * p in f64 arithmetic, p a positive integer below 2^27 (exactly
\* representable as f64).
F64MulInt(x, p) ==
  IF x.zero THEN F64Zero
  ELSE LET prod == StripZeros(BitsOfLimbs(MulLimbs(LimbsOfBits(x.mant), p, 0, <<>>)))
       IN  IF Len(prod) = MantBits
           THEN [zero |-> FALSE, mant |-> prod, exp |-> x.exp]
           ELSE RoundNearestEven(prod, x.exp)

\* x as u64: truncation towards zero (model values stay below 2^31).
F64ToU64(x) ==
  IF x.zero THEN 0
  ELSE IF x.exp >= 0 THEN BitsToInt(x.mant) * Pow(2, x.exp)
  ELSE IF -x.exp >= MantBits THEN 0
  ELSE BitsToInt(Take(x.mant, MantBits + x.exp))

BitsLess(a, b) ==
  \E i \in DOMAIN a : a[i] < b[i] /\ \A j \in 1..(i - 1) : a[j] = b[j]

\* a < b on f64 values.
F64Less(a, b) ==
  IF b.zero THEN FALSE
  ELSE IF a.zero THEN TRUE
  ELSE IF a.exp # b.exp THEN a.exp < b.exp
  ELSE BitsLess(a.mant, b.mant)

(***************************************************************************)
(* Byte encodings.  A byte is 0..255; a public key is a number of KeyLen   *)
(* bytes, a hash a number of HashLen bytes, both big-endian.               *)
(***************************************************************************)
\* (numbers of the model stay below 2^31: bytes past the fourth are 0)
LEBytes(n, width) ==
  [i \in 1..width |-> IF i > 4 THEN 0 ELSE (n \div Pow(256, i - 1)) % 256]

BEBytes(n, width) ==
  [i \in 1..width |-> IF width - i > 3 THEN 0 ELSE (n \div Pow(256, width - i)) % 256]

RECURSIVE OfBEBytes(_)
OfBEBytes(bs) ==
  IF bs = <<>> THEN 0 ELSE 256 * OfBEBytes(Take(bs, Len(bs) - 1)) + bs[Len(bs)]

OfLEBytes(bs) == OfBEBytes([i \in DOMAIN bs |-> bs[Len(bs) + 1 - i]])

KeyBytes(k) == BEBytes(k, KeyLen)

HashBytes(h) == BEBytes(h, HashLen)

Failed == [ok |-> FALSE, val |-> <<>>, rest |-> <<>>]

Parsed(v, rest) == [ok |-> TRUE, val |-> v, rest |-> rest]

\* short_vec: a length as compact-u16, 7 bits a byte, low bits first.
ShortU16(n) ==
  IF n < 128 THEN <<n>>
  ELSE IF n < 16384 THEN <<128 + (n % 128), n \div 128>>
  ELSE <<128 + (n % 128), 128 + ((n \div 128) % 128), n \div 16384>>

DecodeShortU16(bs) ==
  IF Len(bs) < 1 THEN Failed
  ELSE IF bs[1] < 128 THEN Parsed(bs[1], Drop(bs, 1))
  ELSE IF Len(bs) < 2 \/ bs[2] = 0 THEN Failed
  ELSE IF bs[2] < 128 THEN Parsed((bs[1] - 128) + 128 * bs[2], Drop(bs, 2))
  ELSE IF Len(bs) < 3 \/ bs[3] = 0 \/ bs[3] > 3 THEN Failed
  ELSE Parsed((bs[1] - 128) + 128 * (bs[2] - 128) + 16384 * bs[3], Drop(bs, 3))

(***************************************************************************)
(* base64, standard alphabet with padding.  A character is its index in    *)
(* the alphabet, 0..63; Pad is '='; anything above is no base64 character. *)
(***************************************************************************)
\* The encoding without padding (the NO_PAD engine), which the decoder of
\* Submit does not read back.
Base64EncodeNoPad(bytes) ==
  LET n      == Len(bytes)
      at(i)  == IF i <= n THEN bytes[i] ELSE 0
      grp(g) == 65536 * at(3 * g + 1) + 256 * at(3 * g + 2) + at(3 * g + 3)
  IN  [i \in 1..((4 * n + 2) \div 3) |->
         (grp((i - 1) \div 4) \div Pow(64, 3 - ((i - 1) % 4))) % 64]

Base64Encode(bytes) ==
  LET n      == Len(bytes)
      at(i)  == IF i <= n THEN bytes[i] ELSE 0
      grp(g) == 65536 * at(3 * g + 1) + 256 * at(3 * g + 2) + at(3 * g + 3)
  IN  [i \in 1..(4 * ((n + 2) \div 3)) |->
         LET g == (i - 1) \div 4
             j == (i - 1) % 4
         IN  IF 3 * g + j > n THEN Pad
             ELSE (grp(g) \div Pow(64, 3 - j)) % 64]

Base64Decode(chars) ==
  LET n      == Len(chars)
      pads   == IF n > 0 /\ chars[n] = Pad
                THEN (IF n > 1 /\ chars[n - 1] = Pad THEN 2 ELSE 1)
                ELSE 0
      sx(i)  == IF chars[i] = Pad THEN 0 ELSE chars[i]
      grp(g) == 262144 * sx(4 * g + 1) + 4096 * sx(4 * g + 2)
                  + 64 * sx(4 * g + 3) + sx(4 * g + 4)
      bytes  == [i \in 1..(3 * (n \div 4) - pads) |->
                   (grp((i - 1) \div 3) \div Pow(256, 2 - ((i - 1) % 3))) % 256]
  IN  IF n % 4 # 0 THEN Failed
      ELSE IF \E i \in 1..n : chars[i] > Pad THEN Failed
      ELSE IF \E i \in 1..(n - pads) : chars[i] = Pad THEN Failed
      ELSE IF pads = 1 /\ chars[n - 1] % 4 # 0 THEN Failed
      ELSE IF pads = 2 /\ chars[n - 2] % 16 # 0 THEN Failed
      ELSE Parsed(bytes, <<>>)

(***************************************************************************)
(* Instructions and messages.                                              *)
(***************************************************************************)
AccountMeta(pubkey, is_signer, is_writable) ==
  [pubkey |-> pubkey, is_signer |-> is_signer, is_writable |-> is_writable]

Instruction(program_id, accounts, data) ==
  [program_id |-> program_id, accounts |-> accounts, data |-> data]

\* Message::new: the account keys of the instructions, the payer first, then
\* by privilege (writable signers, read-only signers, writable, read-only),
\* each group in key order; instructions refer to keys by index.
CompileMessage(instructions, payer) ==
  LET metas   == UNION {Range(instructions[i].accounts) : i \in DOMAIN instructions}
      keys    == ({m.pubkey : m \in metas}
                    \cup {instructions[i].program_id : i \in DOMAIN instructions})
                 \ {payer}
      sig(k)  == \E m \in metas : m.pubkey = k /\ m.is_signer
      wr(k)   == \E m \in metas : m.pubkey = k /\ m.is_writable
      ws      == <<payer>> \o SetToSeq({k \in keys : sig(k) /\ wr(k)})
      rs      == SetToSeq({k \in keys : sig(k) /\ ~wr(k)})
      wn      == SetToSeq({k \in keys : ~sig(k) /\ wr(k)})
      rn      == SetToSeq({k \in keys : ~sig(k) /\ ~wr(k)})
      account_keys == ws \o rs \o wn \o rn
      compile(ix) ==
        [program_id_index |-> IndexOf(account_keys, ix.program_id) - 1,
         accounts |-> [j \in DOMAIN ix.accounts |->
                         IndexOf(account_keys, ix.accounts[j].pubkey) - 1],
         data |-> ix.data]
  IN  [header |-> [num_required_signatures |-> Len(ws) + Len(rs),
                   num_readonly_signed_accounts |-> Len(rs),
                   num_readonly_unsigned_accounts |-> Len(rn)],
       account_keys |-> account_keys,
       recent_blockhash |-> 0,
       instructions |-> [i \in DOMAIN instructions |-> compile(instructions[i])]]

\* system_instruction::advance_nonce_account
AdvanceNonceAccount(nonce_pubkey, authorized_pubkey) ==
  Instruction(SystemProgram,
              <<AccountMeta(nonce_pubkey, FALSE, TRUE),
                AccountMeta(RecentBlockhashes, FALSE, FALSE),
                AccountMeta(authorized_pubkey, TRUE, FALSE)>>,
              LEBytes(AdvanceNonceTag, 4))

\* Message::new_with_nonce
NewWithNonce(instructions, payer, nonce_account_pubkey, nonce_authority_pubkey) ==
  CompileMessage(<<AdvanceNonceAccount(nonce_account_pubkey, nonce_authority_pubkey)>>
                   \o instructions,
                 payer)

\* Message::serialize (bincode, short_vec lengths)
SerializeInstruction(ci) ==
  <<ci.program_id_index>> \o ShortU16(Len(ci.accounts)) \o ci.accounts
    \o ShortU16(Len(ci.data)) \o ci.data

Serialize(m) ==
  <<m.header.num_required_signatures,
    m.header.num_readonly_signed_accounts,
    m.header.num_readonly_unsigned_accounts>>
    \o ShortU16(Len(m.account_keys))
    \o Concat([i \in DOMAIN m.account_keys |-> KeyBytes(m.account_keys[i])])
    \o HashBytes(m.recent_blockhash)
    \o ShortU16(Len(m.instructions))
    \o Concat([i \in DOMAIN m.instructions |-> SerializeInstruction(m.instructions[i])])

\* bincode::deserialize::<Message>; bytes after the message are ignored.
DeserializeInstruction(bs) ==
  IF Len(bs) < 1 THEN Failed
  ELSE LET na == DecodeShortU16(Drop(bs, 1))
       IN  IF ~na.ok \/ Len(na.rest) < na.val THEN Failed
           ELSE LET nd == DecodeShortU16(Drop(na.rest, na.val))
                IN  IF ~nd.ok \/ Len(nd.rest) < nd.val THEN Failed
                    ELSE Parsed([program_id_index |-> bs[1],
                                 accounts |-> Take(na.rest, na.val),
                                 data |-> Take(nd.rest, nd.val)],
                                Drop(nd.rest, nd.val))

RECURSIVE DeserializeInstructions(_, _)
DeserializeInstructions(bs, count) ==
  IF count = 0 THEN Parsed(<<>>, bs)
  ELSE LET first == DeserializeInstruction(bs)
       IN  IF ~first.ok THEN Failed
           ELSE LET others == DeserializeInstructions(first.rest, count - 1)
                IN  IF ~others.ok THEN Failed
                    ELSE Parsed(<<first.val>> \o others.val, others.rest)

Deserialize(bs) ==
  IF Len(bs) < 3 THEN Failed
  ELSE LET nk == DecodeShortU16(Drop(bs, 3))
       IN  IF ~nk.ok \/ Len(nk.rest) < nk.val * KeyLen + HashLen THEN Failed
           ELSE LET kb == Take(nk.rest, nk.val * KeyLen)
                    hb == SubSeq(nk.rest, nk.val * KeyLen + 1, nk.val * KeyLen + HashLen)
                    ni == DecodeShortU16(Drop(nk.rest, nk.val * KeyLen + HashLen))
                IN  IF ~ni.ok THEN Failed
                    ELSE LET ixs == DeserializeInstructions(ni.rest, ni.val)
                         IN  IF ~ixs.ok THEN Failed
                             ELSE Parsed(
                               [header |-> [num_required_signatures |-> bs[1],
                                            num_readonly_signed_accounts |-> bs[2],
                                            num_readonly_unsigned_accounts |-> bs[3]],
                                account_keys |-> [i \in 1..nk.val |->
                                  OfBEBytes(SubSeq(kb, (i - 1) * KeyLen + 1, i * KeyLen))],
                                recent_blockhash |-> OfBEBytes(hb),
                                instructions |-> ixs.val],
                               ixs.rest)

\* The transport string of a message (build_tx), and its reading (Submit).
Encode(message) == Base64Encode(Serialize(message))

Decode(transaction) ==
  LET data == Base64Decode(transaction)
  IN  IF ~data.ok THEN Failed ELSE Deserialize(data.val)

(***************************************************************************)
(* Instruction builders of the programs the CLI calls.                     *)
(***************************************************************************)
\* system_instruction::create_account
CreateAccount(from_pubkey, to_pubkey, lamports, space, owner) ==
  Instruction(SystemProgram,
              <<AccountMeta(from_pubkey, TRUE, TRUE), AccountMeta(to_pubkey, TRUE, TRUE)>>,
              LEBytes(CreateAccountTag, 4) \o LEBytes(lamports, 8) \o LEBytes(space, 8)
                \o KeyBytes(owner))

\* spl_token::instruction::transfer with no multisig signers: the authority
\* signs.
TokenTransfer(token_program_id, source, destination, authority, amount) ==
  Instruction(token_program_id,
              <<AccountMeta(source, FALSE, TRUE),
                AccountMeta(destination, FALSE, TRUE),
                AccountMeta(authority, TRUE, FALSE)>>,
              <<TransferTag>> \o LEBytes(amount, 8))

\* An unpack that takes every data for a transfer.
UnpackAsTransfer(data) == [ok |-> TRUE, transfer |-> TRUE, amount |-> 0]

\* TokenInstruction::unpack, as far as the handler looks at it: a transfer
\* with its amount, another instruction, or no instruction at all.
UnpackTokenInstruction(data) ==
  IF data = <<>> THEN [ok |-> FALSE, transfer |-> FALSE, amount |-> 0]
  ELSE IF data[1] = TransferTag
       THEN IF Len(data) < 9 THEN [ok |-> FALSE, transfer |-> FALSE, amount |-> 0]
            ELSE [ok |-> TRUE, transfer |-> TRUE, amount |-> OfLEBytes(SubSeq(data, 2, 9))]
  ELSE IF data[1] > 24 THEN [ok |-> FALSE, transfer |-> FALSE, amount |-> 0]
  ELSE [ok |-> TRUE, transfer |-> FALSE, amount |-> 0]

\* spl_token::ui_amount_to_amount: (ui_amount * 10^decimals as f64) as u64
UiAmountToAmount(ui_amount, decimals) == F64ToU64(F64MulInt(ui_amount, Pow(10, decimals)))

\* spl_token::amount_to_ui_amount: amount as f64 / 10^decimals as f64
AmountToUiAmount(amount, decimals) == F64FromRatio(amount, Pow(10, decimals))

\* From<&AccountMeta> for TransactionAccount, and back.
TransactionAccounts(metas) == metas

\* borsh of the arguments of the multisig program's instructions, after the
\* instruction's discriminator.
BorshKeys(keys) ==
  LEBytes(Len(keys), 4) \o Concat([i \in DOMAIN keys |-> KeyBytes(keys[i])])

BorshAccounts(accs) ==
  LEBytes(Len(accs), 4)
    \o Concat([i \in DOMAIN accs |->
                 KeyBytes(accs[i].pubkey)
                   \o <<IF accs[i].is_signer THEN 1 ELSE 0,
                        IF accs[i].is_writable THEN 1 ELSE 0>>])

BorshBytes(data) == LEBytes(Len(data), 4) \o data

\* Pubkey::find_program_address(&[multisig], program_id): a function of the
\* pair, off the keys that name accounts.
derive_multisig_signer(multisig, program_id) ==
  [address |-> 100 + 10 * program_id + multisig,
   bump |-> 255 - ((multisig + program_id) % 2)]

\* Signer::sign_message of a key pair over bytes, and Signature::default().
Sign(key, bytes) == [default |-> FALSE, signer |-> key, message |-> bytes]

DefaultSignature == [default |-> TRUE, signer |-> 0, message |-> <<>>]

(***************************************************************************)
(* State.                                                                  *)
(***************************************************************************)
VARIABLES
  pc,           \* where the running invocation stands; "idle", "done" between
  cmd,          \* the parsed command line of the invocation
  locals,       \* the handler's local variables
  stdout,       \* what the invocation has printed
  result,       \* "running", "Ok", or the error main returned
  steps,        \* the calls the invocation has made, in order
  nonce_value,  \* the value the nonce account stores on chain
  nonce_authority, \* the authority of the nonce account on chain
  log,          \* the transactions the network has processed
  device        \* the outcome of the signer backend's last sign

vars == <<pc, cmd, locals, stdout, result, steps, nonce_value, nonce_authority, log, device>>

chain == <<nonce_value, nonce_authority, log>>

NoLocals ==
  [keypair |-> NoneV, multisig_pda |-> NoneV, from_account |-> NoneV,
   to_account |-> NoneV, amount |-> NoneV, transfer |-> NoneV, rent |-> NoneV,
   transaction_account |-> NoneV, remaining_accounts |-> NoneV,
   instructions |-> NoneV, message |-> NoneV, signer |-> NoneV]

NoOutput ==
  [lines |-> <<>>, transport |-> NoneV, signature |-> NoneV, submitted |-> NoneV]

Init ==
  /\ pc = "idle"
  /\ cmd = [name |-> "none"]
  /\ locals = NoLocals
  /\ stdout = NoOutput
  /\ result = "running"
  /\ steps = <<>>
  /\ nonce_value = 0
  /\ nonce_authority = 10
  /\ log = <<>>
  /\ device = "none"

\* A process starts when no other runs.
Fresh == pc = "idle"

SignerArgs ==
  [signer : Signers, nonce_account : NonceAccounts, nonce : 0..MaxNonce]

\* return Err(e) / a failed `?` / a panic: the process ends with the error.
Abort(error) ==
  /\ pc' = "done"
  /\ result' = error

(***************************************************************************)
(* build_tx (src/src/main.rs:100-113).                                     *)
(***************************************************************************)
\* A build_tx that leaves the blockhash Message::new_with_nonce sets.
build_tx_default_blockhash(payer, nonce, nonce_authority_arg, instructions) ==
  NewWithNonce(instructions, payer, nonce_authority_arg, payer)

build_tx(payer, nonce, nonce_authority_arg, instructions) ==
  [NewWithNonce(instructions, payer, nonce_authority_arg, payer)
     EXCEPT !.recent_blockhash = nonce]

\* What build_tx prints.
PrintTransport(out, message) ==
  [out EXCEPT !.lines = Append(@, "transaction data"),
              !.transport = Some(Encode(message))]

(***************************************************************************)
(* create-multisig (src/src/main.rs:126-165).                              *)
(***************************************************************************)
CreateMultisigData(owners, threshold, nonce) ==
  <<1>> \o BorshKeys(owners) \o LEBytes(threshold, 8) \o <<nonce>>

\* req.instructions(): the instructions added to the request, then the
\* program's own.
CreateMultisigInstructions(signer, multisig, lamports, owners, threshold, bump) ==
  <<CreateAccount(signer, multisig, lamports, AccountSpace, Pid),
    Instruction(Pid,
                <<AccountMeta(multisig, TRUE, TRUE), AccountMeta(RentSysvar, FALSE, FALSE)>>,
                CreateMultisigData(owners, threshold, bump))>>

StartCreateMultisig ==
  /\ Fresh
  /\ \E sa \in SignerArgs, signers \in SeqsUpTo(Owners, MaxOwners),
        threshold \in 0..MaxThreshold, keypair \in FreshKeys :
       /\ cmd' = [name |-> "create-multisig", signer |-> sa,
                  signers |-> signers, threshold |-> threshold]
       /\ locals' = [NoLocals EXCEPT
                       !.keypair = Some(keypair),
                       !.multisig_pda = Some(derive_multisig_signer(keypair, Pid))]
       /\ stdout' = NoOutput
       /\ result' = "running"
       /\ steps' = <<>>
       /\ pc' = "cm_rent"
       /\ UNCHANGED <<chain, device>>

\* get_minimum_balance_for_rent_exemption(500)?, then the rest of the handler.
CreateMultisigRent ==
  /\ pc = "cm_rent"
  /\ \/ /\ Abort("rent lookup failed")
        /\ steps' = Append(steps, "rent_lookup")
        /\ UNCHANGED <<locals, stdout>>
     \/ \E lamports \in RentLamports :
          LET keypair == locals.keypair[1]
              pda     == locals.multisig_pda[1]
              ixs     == CreateMultisigInstructions(cmd.signer.signer, keypair, lamports,
                                                    cmd.signers, cmd.threshold, pda.bump)
              tx      == build_tx(cmd.signer.signer, cmd.signer.nonce,
                                  cmd.signer.nonce_account, ixs)
          IN  /\ locals' = [locals EXCEPT !.rent = Some(lamports),
                                               !.instructions = Some(ixs),
                                               !.message = Some(tx)]
              /\ stdout' = [PrintTransport(stdout, tx) EXCEPT
                              !.lines = @ \o <<"signed by multisig account",
                                               "multisig address", "multisig pda">>,
                              !.signature = Some(Sign(keypair, Serialize(tx)))]
              /\ steps' = steps \o <<"rent_lookup", "build_instructions", "build_tx">>
              /\ pc' = "done"
              /\ result' = "Ok"
  /\ UNCHANGED <<cmd, chain, device>>

(***************************************************************************)
(* approve (src/src/main.rs:263-292).                                      *)
(***************************************************************************)
ApproveInstructions(multisig, transaction, owner) ==
  <<Instruction(Pid,
                <<AccountMeta(multisig, FALSE, FALSE),
                  AccountMeta(transaction, FALSE, TRUE),
                  AccountMeta(owner, TRUE, FALSE)>>,
                <<3>>)>>

Approve ==
  /\ Fresh
  /\ \E sa \in SignerArgs, multisig \in Multisigs, transaction \in Transactions :
       LET ixs == ApproveInstructions(multisig, transaction, sa.signer)
           tx  == build_tx(sa.signer, sa.nonce, sa.nonce_account, ixs)
       IN  /\ cmd' = [name |-> "approve", signer |-> sa,
                      multisig |-> multisig, transaction |-> transaction]
           /\ locals' = [NoLocals EXCEPT !.instructions = Some(ixs), !.message = Some(tx)]
           /\ stdout' = PrintTransport([NoOutput EXCEPT !.lines = <<"approving">>], tx)
           /\ steps' = <<"build_instructions", "build_tx">>
           /\ pc' = "done"
           /\ result' = "Ok"
           /\ UNCHANGED <<chain, device>>

(***************************************************************************)
(* What the RPC node may answer.                                           *)
(***************************************************************************)
Min(a, b) == IF a < b THEN a ELSE b

\* UiTokenAmount of amount base units of a mint with the given decimals.
UiTokenAmount(amount, decimals) ==
  [amount |-> amount, decimals |-> decimals,
   ui_amount |-> Some(AmountToUiAmount(amount, decimals))]

\* Token accounts holding bn / 10^bk tokens, and ones whose ui_amount the
\* node left out.
SourceAccounts ==
  {[mint |-> q[1], token_amount |-> UiTokenAmount(q[3] * Pow(10, q[2] - q[4]), q[2])] :
     q \in {q \in Mints \X (0..MaxDecimals) \X (0..MaxBalance) \X (0..MaxScale) :
              q[4] <= q[2]}}
  \cup {[mint |-> m,
         token_amount |-> [amount |-> 0, decimals |-> 0, ui_amount |-> NoneV]] :
          m \in Mints}

DestinationAccounts ==
  {[mint |-> m, token_amount |-> UiTokenAmount(0, 0)] : m \in Mints}

Descriptors ==
  {AccountMeta(15, FALSE, TRUE), AccountMeta(16, FALSE, TRUE),
   AccountMeta(derive_multisig_signer(13, Pid).address, TRUE, FALSE)}

ProposalData ==
  {<<TransferTag>> \o LEBytes(a, 8) : a \in {0, 150}}
    \cup {<<>>, <<TransferTag>>, <<4>> \o LEBytes(1, 8), <<200>>}

\* coral_multisig::Transaction, the fields the handler reads.
ProposalRecords ==
  [program_id : {TokenProgram}, accounts : SeqsUpTo(Descriptors, MaxAccs),
   data : ProposalData]

(***************************************************************************)
(* create-token-transfer-transaction (src/src/main.rs:166-262).            *)
(***************************************************************************)
\* A mint check that passes every pair of accounts.
MintMismatchIgnored(from_account, to_account) == FALSE

\* A balance check that also refuses the whole balance.
InsufficientFundsOrEqual(from_account, amount) ==
  \/ from_account.token_amount.ui_amount = NoneV
  \/ ~F64Less(amount, from_account.token_amount.ui_amount[1])

MintMismatch(from_account, to_account) == from_account.mint # to_account.mint

InsufficientFunds(from_account, amount) ==
  \/ from_account.token_amount.ui_amount = NoneV
  \/ F64Less(from_account.token_amount.ui_amount[1], amount)

CreateTransactionData(pid, accs, data) ==
  <<2>> \o KeyBytes(pid) \o BorshAccounts(accs) \o BorshBytes(data)

CreateTransactionInstructions(signer, multisig, transaction, lamports, transfer) ==
  <<CreateAccount(signer, transaction, lamports, AccountSpace, Pid),
    Instruction(Pid,
                <<AccountMeta(multisig, FALSE, FALSE),
                  AccountMeta(transaction, TRUE, TRUE),
                  AccountMeta(signer, TRUE, FALSE),
                  AccountMeta(RentSysvar, FALSE, FALSE)>>,
                CreateTransactionData(TokenProgram,
                                      TransactionAccounts(transfer.accounts),
                                      transfer.data))>>

StartCreateTokenTransfer ==
  /\ Fresh
  /\ \E sa \in SignerArgs, multisig \in Multisigs, from \in FromAccounts,
        to \in ToAccounts, n \in 0..MaxAmount, k \in 0..MaxScale :
       /\ cmd' = [name |-> "create-token-transfer-transaction", signer |-> sa,
                  multisig |-> multisig, from |-> from, to |-> to,
                  amount_text |-> <<n, k>>, amount |-> F64FromRatio(n, Pow(10, k))]
       /\ locals' = NoLocals
       /\ stdout' = [NoOutput EXCEPT !.lines = <<"preparing", "parameters">>]
       /\ result' = "running"
       /\ steps' = <<>>
       /\ pc' = "ct_from"
       /\ UNCHANGED <<chain, device>>

\* get_token_account(&from).await?.ok_or(..)?
FetchFromAccount ==
  /\ pc = "ct_from"
  /\ steps' = Append(steps, "fetch_from")
  /\ \/ Abort("rpc error") /\ UNCHANGED locals
     \/ Abort("source token account not found") /\ UNCHANGED locals
     \/ \E acc \in SourceAccounts :
          /\ locals' = [locals EXCEPT !.from_account = Some(acc)]
          /\ pc' = "ct_to"
          /\ UNCHANGED result
  /\ UNCHANGED <<cmd, stdout, chain, device>>

\* get_token_account(&to).await?.ok_or(..)?, the two checks, the conversion
\* of the amount and the transfer instruction, up to the rent lookup.
FetchToAccountAndCheck ==
  /\ pc = "ct_to"
  /\ \/ /\ Abort("rpc error")
        /\ steps' = Append(steps, "fetch_to")
        /\ UNCHANGED locals
     \/ /\ Abort("destination token account not found")
        /\ steps' = Append(steps, "fetch_to")
        /\ UNCHANGED locals
     \/ \E acc \in DestinationAccounts, keypair \in FreshKeys :
          LET from_account == locals.from_account[1]
              amount   == UiAmountToAmount(cmd.amount, from_account.token_amount.decimals)
              pda      == derive_multisig_signer(cmd.multisig, Pid)
              transfer == TokenTransfer(TokenProgram, cmd.from, cmd.to, pda.address, amount)
          IN  IF MintMismatch(from_account, acc)
              THEN /\ Abort("source and destination accounts have different mint addresses")
                   /\ steps' = steps \o <<"fetch_to", "check_mint">>
                   /\ locals' = [locals EXCEPT !.to_account = Some(acc)]
              ELSE IF InsufficientFunds(from_account, cmd.amount)
              THEN /\ Abort("source account doesn't have sufficient amount of token")
                   /\ steps' = steps \o <<"fetch_to", "check_mint", "check_balance">>
                   /\ locals' = [locals EXCEPT !.to_account = Some(acc)]
              ELSE /\ locals' = [locals EXCEPT !.to_account = Some(acc),
                                               !.amount = Some(amount),
                                               !.keypair = Some(keypair),
                                               !.multisig_pda = Some(pda),
                                               !.transfer = Some(transfer)]
                   /\ steps' = steps \o <<"fetch_to", "check_mint", "check_balance",
                                          "convert_amount", "build_transfer">>
                   /\ pc' = "ct_rent"
                   /\ UNCHANGED result
  /\ UNCHANGED <<cmd, stdout, chain, device>>

\* get_minimum_balance_for_rent_exemption(500)?, then the rest of the handler.
CreateTransactionRent ==
  /\ pc = "ct_rent"
  /\ \/ /\ Abort("rent lookup failed")
        /\ steps' = Append(steps, "rent_lookup")
        /\ UNCHANGED <<locals, stdout>>
     \/ \E lamports \in RentLamports :
          LET keypair == locals.keypair[1]
              ixs     == CreateTransactionInstructions(cmd.signer.signer, cmd.multisig,
                                                       keypair, lamports, locals.transfer[1])
              tx      == build_tx(cmd.signer.signer, cmd.signer.nonce,
                                  cmd.signer.nonce_account, ixs)
          IN  /\ locals' = [locals EXCEPT !.rent = Some(lamports),
                                               !.instructions = Some(ixs),
                                               !.message = Some(tx)]
              /\ stdout' = [PrintTransport(stdout, tx) EXCEPT
                              !.lines = @ \o <<"signed by transaction account",
                                               "pending transaction account">>,
                              !.signature = Some(Sign(keypair, Serialize(tx)))]
              /\ steps' = steps \o <<"rent_lookup", "build_instructions", "build_tx">>
              /\ pc' = "done"
              /\ result' = "Ok"
  /\ UNCHANGED <<cmd, chain, device>>

(***************************************************************************)
(* execute-token-transfer-transaction (src/src/main.rs:293-350).           *)
(***************************************************************************)
\* The descriptors as account metas, last first.
RemainingAccountsReversed(accounts) ==
  [i \in DOMAIN accounts |->
     [accounts[Len(accounts) + 1 - i] EXCEPT !.is_signer = FALSE]]

\* the descriptors as account metas, none a signer
RemainingAccounts(accounts) ==
  [i \in DOMAIN accounts |-> [accounts[i] EXCEPT !.is_signer = FALSE]]

ExecuteInstructions(multisig, multisig_signer, transaction, remaining_accounts) ==
  <<Instruction(Pid,
                <<AccountMeta(multisig, FALSE, FALSE),
                  AccountMeta(multisig_signer, FALSE, FALSE),
                  AccountMeta(transaction, FALSE, TRUE)>>
                  \o remaining_accounts
                  \o <<AccountMeta(TokenProgram, FALSE, TRUE)>>,
                <<4>>)>>

StartExecute ==
  /\ Fresh
  /\ \E sa \in SignerArgs, multisig \in Multisigs, transaction \in Transactions :
       /\ cmd' = [name |-> "execute-token-transfer-transaction", signer |-> sa,
                  multisig |-> multisig, transaction |-> transaction]
       /\ locals' = NoLocals
       /\ stdout' = NoOutput
       /\ result' = "running"
       /\ steps' = <<>>
       /\ pc' = "ex_account"
       /\ UNCHANGED <<chain, device>>

\* program.account(transaction).await?, up to the fetch of the source
\* account, whose address remaining_accounts[0] is.
FetchTransactionAccount ==
  /\ pc = "ex_account"
  /\ steps' = Append(steps, "fetch_transaction")
  /\ \/ Abort("account not found") /\ UNCHANGED locals
     \/ \E rec \in ProposalRecords :
          /\ locals' = [locals EXCEPT
                          !.transaction_account = Some(rec),
                          !.multisig_pda = Some(derive_multisig_signer(cmd.multisig, Pid)),
                          !.remaining_accounts = Some(RemainingAccounts(rec.accounts))]
          /\ IF rec.accounts = <<>>
             THEN Abort("panic: index out of bounds")
             ELSE pc' = "ex_from" /\ UNCHANGED result
  /\ UNCHANGED <<cmd, stdout, chain, device>>

\* get_token_account(&remaining_accounts[0].pubkey).await?.ok_or(..)?, then
\* the rest of the handler.
FetchSourceAndExecute ==
  /\ pc = "ex_from"
  /\ \/ /\ Abort("rpc error")
        /\ steps' = Append(steps, "fetch_from")
        /\ UNCHANGED <<locals, stdout>>
     \/ /\ Abort("source token account not found")
        /\ steps' = Append(steps, "fetch_from")
        /\ UNCHANGED <<locals, stdout>>
     \/ \E decimals \in 0..MaxDecimals :
          LET acc       == [mint |-> 40, token_amount |-> UiTokenAmount(0, decimals)]
              rec       == locals.transaction_account[1]
              remaining == locals.remaining_accounts[1]
              unpacked  == UnpackTokenInstruction(rec.data)
              ixs       == ExecuteInstructions(cmd.multisig, locals.multisig_pda[1].address,
                                               cmd.transaction, remaining)
              tx        == build_tx(cmd.signer.signer, cmd.signer.nonce,
                                    cmd.signer.nonce_account, ixs)
          IN  IF ~unpacked.ok
              THEN /\ Abort("invalid instruction")
                   /\ steps' = steps \o <<"fetch_from", "unpack">>
                   /\ locals' = [locals EXCEPT !.from_account = Some(acc)]
                   /\ UNCHANGED stdout
              ELSE IF ~unpacked.transfer
              THEN /\ Abort("transaction instruction is not transfer")
                   /\ steps' = steps \o <<"fetch_from", "unpack">>
                   /\ locals' = [locals EXCEPT !.from_account = Some(acc)]
                   /\ UNCHANGED stdout
              ELSE IF Len(remaining) < 2
              THEN /\ Abort("panic: index out of bounds")
                   /\ steps' = steps \o <<"fetch_from", "unpack">>
                   /\ locals' = [locals EXCEPT !.from_account = Some(acc),
                                               !.amount = Some(unpacked.amount)]
                   /\ stdout' = [stdout EXCEPT !.lines = Append(@, "executing")]
              ELSE /\ locals' = [locals EXCEPT !.from_account = Some(acc),
                                               !.amount = Some(unpacked.amount),
                                               !.instructions = Some(ixs),
                                               !.message = Some(tx)]
                   /\ stdout' = PrintTransport(
                                  [stdout EXCEPT !.lines = @ \o <<"executing", "parameters">>],
                                  tx)
                   /\ steps' = steps \o <<"fetch_from", "unpack", "build_instructions",
                                          "build_tx">>
                   /\ pc' = "done"
                   /\ result' = "Ok"
  /\ UNCHANGED <<cmd, chain, device>>

(***************************************************************************)
(* submit (src/src/main.rs:351-366) and the network it sends to.           *)
(***************************************************************************)
\* The strings an operator may pass: transport strings printed by approve,
\* and strings that are none.
SubmitTransactions ==
  {Encode(build_tx(sa.signer, sa.nonce, sa.nonce_account,
                   ApproveInstructions(13, 14, sa.signer))) : sa \in SignerArgs}
    \cup {<<>>, <<0, 0, 0>>, <<0, 0, 0, 0>>, <<0, 65, 0, 0>>}

\* The signatures collected out of band for a string: none, or one signer's
\* over the bytes the string stands for.
SubmitSignatures(transaction) ==
  LET data == Base64Decode(transaction)
  IN  {<<>>} \cup {<<Sign(k, data.val)>> : k \in Signers}

\* The network's verdict on a transaction: the signatures are those of the
\* message's signers, and the message is anchored to the nonce account: its
\* first instruction advances the account under the account's authority, who
\* signs, and its blockhash is the value the account stores.
SignaturesVerify(tx) ==
  /\ Len(tx.signatures) = tx.message.header.num_required_signatures
  /\ Len(tx.signatures) <= Len(tx.message.account_keys)
  /\ \A i \in DOMAIN tx.signatures :
       tx.signatures[i] = Sign(tx.message.account_keys[i], Serialize(tx.message))

NonceMatches(message, stored, authority) ==
  /\ message.instructions # <<>>
  /\ LET ix     == message.instructions[1]
         key(i) == message.account_keys[i + 1]
     IN  /\ ix.program_id_index < Len(message.account_keys)
         /\ key(ix.program_id_index) = SystemProgram
         /\ ix.data = LEBytes(AdvanceNonceTag, 4)
         /\ Len(ix.accounts) = 3
         /\ \A j \in 1..3 : ix.accounts[j] < Len(message.account_keys)
         /\ key(ix.accounts[1]) \in NonceAccounts
         /\ key(ix.accounts[3]) = authority
         /\ ix.accounts[3] < message.header.num_required_signatures
  /\ message.recent_blockhash = stored

\* A Submit that drops the error of send_and_confirm_transaction.
SubmitResultSwallowed(confirmed) == "Ok"

\* What Submit makes of the answer of send_and_confirm_transaction.
SubmitResult(confirmed) == IF confirmed THEN "Ok" ELSE "submission error"

StartSubmit ==
  /\ Fresh
  /\ Len(log) < MaxSubmits
  /\ \E transaction \in SubmitTransactions :
       \E signatures \in SubmitSignatures(transaction) :
         LET message == Decode(transaction)
         IN  /\ cmd' = [name |-> "submit", transaction |-> transaction,
                        signatures |-> signatures]
             /\ stdout' = NoOutput
             /\ steps' = <<"decode">>
             /\ IF ~message.ok
                THEN /\ Abort("malformed transport")
                     /\ locals' = NoLocals
                ELSE /\ locals' = [NoLocals EXCEPT !.message = Some(message.val)]
                     /\ pc' = "sb_send"
                     /\ result' = "running"
             /\ UNCHANGED <<chain, device>>

\* send_and_confirm_transaction(&tx).await?
SendAndConfirm ==
  /\ pc = "sb_send"
  /\ steps' = Append(steps, "send_and_confirm")
  /\ pc' = "done"
  /\ LET tx    == [signatures |-> cmd.signatures, message |-> locals.message[1]]
         valid == /\ SignaturesVerify(tx)
                  /\ NonceMatches(tx.message, nonce_value, nonce_authority)
         entry(confirmed, reported) ==
           [blockhash |-> tx.message.recent_blockhash, nonce_at |-> nonce_value,
            signed |-> SignaturesVerify(tx), confirmed |-> confirmed,
            reported |-> reported]
     IN  \/ \* the node is not reached
            /\ result' = "rpc error"
            /\ UNCHANGED <<stdout, chain>>
         \/ \* the network rejects the transaction
            /\ ~valid
            /\ result' = SubmitResult(FALSE)
            /\ stdout' = IF result' = "Ok"
                         THEN [stdout EXCEPT !.submitted = Some(tx.message.recent_blockhash)]
                         ELSE stdout
            /\ log' = Append(log, entry(FALSE, result'))
            /\ UNCHANGED <<nonce_value, nonce_authority>>
         \/ \* the network runs the transaction: the nonce advances, and the
            \* multisig program accepts or rejects
            /\ valid
            /\ \E accepted \in BOOLEAN :
                 /\ result' = SubmitResult(accepted)
                 /\ stdout' = IF result' = "Ok"
                              THEN [stdout EXCEPT
                                      !.submitted = Some(tx.message.recent_blockhash)]
                              ELSE stdout
                 /\ log' = Append(log, entry(accepted, result'))
            /\ nonce_value' = nonce_value + 1
            /\ UNCHANGED nonce_authority
  /\ UNCHANGED <<cmd, locals, device>>

(***************************************************************************)
(* The signer tool (src/solana-signer/src/main.rs).                        *)
(***************************************************************************)
SignInputs ==
  {Encode(build_tx(s, 0, 12, ApproveInstructions(13, 14, s))) : s \in Signers}
    \cup {<<>>, <<0, 0, 0>>, <<0, 65, 0, 0>>}

SignOutcomes == {"ok", "disconnected", "locked", "app not open", "rejected"}

\* Signer::try_sign_message: the key pair of a file always signs; the ledger
\* signs when the device and its user do.
try_sign_message(signer, message, outcome) ==
  IF signer.kind = "file" \/ outcome = "ok"
  THEN Parsed(Sign(signer.key, message), <<>>)
  ELSE Failed

\* Signer::sign_message, the call run makes: the signature, or the default
\* signature when try_sign_message fails.
sign_message(signer, message, outcome) ==
  LET r == try_sign_message(signer, message, outcome)
  IN  IF r.ok THEN r.val ELSE DefaultSignature

StartSign ==
  /\ Fresh
  /\ \E ledger \in BOOLEAN, account_number \in 0..1,
        key_file \in {NoneV, Some("id.json")}, transaction \in SignInputs :
       /\ cmd' = [name |-> "sign", ledger |-> ledger, account_number |-> account_number,
                  key_file |-> key_file, transaction |-> transaction]
       /\ locals' = NoLocals
       /\ stdout' = NoOutput
       /\ steps' = <<>>
       /\ IF ledger THEN pc' = "sg_discover" /\ result' = "running"
          ELSE IF key_file = NoneV THEN Abort("private-key is required")
          ELSE pc' = "sg_keyfile" /\ result' = "running"
       /\ UNCHANGED <<chain, device>>

\* initialize_wallet_manager()?, update_devices()?, list_devices().find(..)
\* .ok_or(..)?, get_ledger(..)?
DiscoverLedger ==
  /\ pc = "sg_discover"
  /\ steps' = Append(steps, "discover")
  /\ \/ Abort("wallet manager error") /\ UNCHANGED locals
     \/ Abort("Ledger not found") /\ UNCHANGED locals
     \/ \E key \in Signers :
          /\ locals' = [locals EXCEPT !.signer = Some([kind |-> "ledger", key |-> key])]
          /\ pc' = "sg_run"
          /\ UNCHANGED result
  /\ UNCHANGED <<cmd, stdout, chain, device>>

\* Keypair::read_from_file(..).unwrap()
ReadKeyFile ==
  /\ pc = "sg_keyfile"
  /\ steps' = Append(steps, "read_key_file")
  /\ \/ Abort("panic: unwrap on Err") /\ UNCHANGED locals
     \/ \E key \in Signers :
          /\ locals' = [locals EXCEPT !.signer = Some([kind |-> "file", key |-> key])]
          /\ pc' = "sg_run"
          /\ UNCHANGED result
  /\ UNCHANGED <<cmd, stdout, chain, device>>

\* run
Run ==
  /\ pc = "sg_run"
  /\ LET message == Base64Decode(cmd.transaction)
         signer  == locals.signer[1]
     IN  IF ~message.ok
         THEN /\ Abort("malformed transport")
              /\ steps' = Append(steps, "decode")
              /\ UNCHANGED <<stdout, device>>
         ELSE \E outcome \in IF signer.kind = "ledger" THEN SignOutcomes ELSE {"none"} :
                /\ device' = outcome
                /\ stdout' = [stdout EXCEPT
                                !.lines = Append(@, "Message signed"),
                                !.signature =
                                  Some(sign_message(signer, message.val, outcome))]
                /\ steps' = steps \o <<"decode", "sign">>
                /\ pc' = "done"
                /\ result' = "Ok"
  /\ UNCHANGED <<cmd, locals, chain>>

\* The process exits: nothing of it is left but what it changed on chain.
Exit ==
  /\ pc = "done"
  /\ pc' = "idle"
  /\ cmd' = [name |-> "none"]
  /\ locals' = NoLocals
  /\ stdout' = NoOutput
  /\ result' = "running"
  /\ steps' = <<>>
  /\ device' = "none"
  /\ UNCHANGED chain

Next ==
  \/ StartCreateMultisig
  \/ CreateMultisigRent
  \/ StartCreateTokenTransfer
  \/ FetchFromAccount
  \/ FetchToAccountAndCheck
  \/ CreateTransactionRent
  \/ Approve
  \/ StartExecute
  \/ FetchTransactionAccount
  \/ FetchSourceAndExecute
  \/ Exit

Spec == Init /\ [][Next]_vars

\* Builds and submissions against one nonce account, one after the other.
NextSubmit ==
  \/ Approve
  \/ StartSubmit
  \/ SendAndConfirm
  \/ Exit

SpecSubmit == Init /\ [][NextSubmit]_vars

\* The signer tool.
NextSigner ==
  \/ StartSign
  \/ DiscoverLedger
  \/ ReadKeyFile
  \/ Run
  \/ Exit

SpecSigner == Init /\ [][NextSigner]_vars

(***************************************************************************)
(* Properties.                                                             *)
(***************************************************************************)
Builders ==
  {"create-multisig", "create-token-transfer-transaction", "approve",
   "execute-token-transfer-transaction"}

IsCreateTransaction == cmd.name = "create-token-transfer-transaction"

IsExecute == cmd.name = "execute-token-transfer-transaction"

Failing == result \notin {"running", "Ok"}

\* The addresses an instruction of a message names, and its program.
KeysOf(m, ix) == [j \in DOMAIN ix.accounts |-> m.account_keys[ix.accounts[j] + 1]]

ProgramOf(m, ix) == m.account_keys[ix.program_id_index + 1]

PubkeysOf(metas) == [j \in DOMAIN metas |-> metas[j].pubkey]

IsPrefix(s, t) == Len(s) <= Len(t) /\ s = SubSeq(t, 1, Len(s))

\* The requested amount n / 10^k against the balance of the source account,
\* as numbers.
AmountExceedsBalance ==
  cmd.amount_text[1] * Pow(10, locals.from_account[1].token_amount.decimals)
    > locals.from_account[1].token_amount.amount * Pow(10, cmd.amount_text[2])

BothAccountsFetched ==
  /\ IsCreateTransaction
  /\ locals.from_account # NoneV
  /\ locals.to_account # NoneV

\* C1: a transaction whose message was built against a nonce value the account
\* has advanced past is refused by the network, Submit reports a submission
\* error for it, and it is never confirmed; of the messages built against one
\* nonce value, none is confirmed after another was.
C1_StaleNeverConfirmed ==
  /\ \A i \in DOMAIN log :
       log[i].nonce_at > log[i].blockhash =>
         ~log[i].confirmed /\ log[i].reported = "submission error"
  /\ \A i, j \in DOMAIN log :
       (i < j /\ log[i].blockhash = log[j].blockhash /\ log[i].reported = "Ok") =>
         ~log[j].confirmed /\ log[j].reported = "submission error"
  /\ (cmd.name = "submit" /\ stdout.submitted # NoneV) =>
       /\ result = "Ok"
       /\ log # <<>>
       /\ log[Len(log)].confirmed

\* A properly signed message is submitted after another message built against
\* the same nonce value was confirmed.
C1_Witness ==
  \E i, j \in DOMAIN log :
    /\ i < j
    /\ log[i].confirmed
    /\ log[j].blockhash = log[i].blockhash
    /\ log[j].signed
    /\ log[j].nonce_at > log[j].blockhash

\* C2: create-multisig ends with an error and prints no transport string when
\* the threshold is 0 or exceeds the number of owners, and goes through when
\* the threshold is between 1 and the number of owners.
C2_ThresholdValidated ==
  (cmd.name = "create-multisig" /\ pc = "done") =>
    IF cmd.threshold = 0 \/ cmd.threshold > Len(cmd.signers)
    THEN Failing /\ stdout.transport = NoneV
    ELSE locals.rent # NoneV => result = "Ok" /\ stdout.transport # NoneV

C4_MintMismatchRejected ==
  (BothAccountsFetched /\ locals.from_account[1].mint # locals.to_account[1].mint) =>
    /\ pc = "done"
    /\ result = "source and destination accounts have different mint addresses"
    /\ locals.transfer = NoneV
    /\ locals.instructions = NoneV
    /\ locals.message = NoneV
    /\ stdout.transport = NoneV

\* The mints differ and the balance covers the amount.
C4_Witness ==
  /\ BothAccountsFetched
  /\ locals.from_account[1].mint # locals.to_account[1].mint
  /\ locals.from_account[1].token_amount.ui_amount # NoneV
  /\ cmd.amount_text[1] > 0
  /\ ~AmountExceedsBalance

\* C5: the instruction execute emits names the multisig, its program-derived
\* signer and the proposal account, then the addresses of the proposal's
\* recorded descriptors in their recorded order, then the token program; none
\* of them signs.
C5_LeadingDescriptorsProgram ==
  (IsExecute /\ locals.message # NoneV) =>
    LET m  == locals.message[1]
        ix == m.instructions[Len(m.instructions)]
    IN  /\ ProgramOf(m, ix) = Pid
        /\ KeysOf(m, ix)
             = <<cmd.multisig, derive_multisig_signer(cmd.multisig, Pid).address,
                 cmd.transaction>>
               \o PubkeysOf(locals.transaction_account[1].accounts)
               \o <<TokenProgram>>
        /\ m.header.num_required_signatures = 1

\* A proposal of three distinct descriptors is executed.
C5_Witness ==
  /\ IsExecute
  /\ locals.message # NoneV
  /\ Len(locals.transaction_account[1].accounts) = 3
  /\ Cardinality(Range(locals.transaction_account[1].accounts)) = 3

\* C5 as stated: the recorded descriptors in their order, followed by the
\* signer authority and the asset program.
C5_DescriptorsThenAuthorityAndProgram ==
  (IsExecute /\ locals.message # NoneV) =>
    LET m    == locals.message[1]
        keys == KeysOf(m, m.instructions[Len(m.instructions)])
        rec  == PubkeysOf(locals.transaction_account[1].accounts)
        n    == Len(keys)
    IN  /\ n >= Len(rec) + 2
        /\ SubSeq(keys, n - Len(rec) - 1, n - 2) = rec
        /\ keys[n - 1] = derive_multisig_signer(cmd.multisig, Pid).address
        /\ keys[n] = TokenProgram

\* C6: the transport string a command prints, read the way Submit reads it,
\* is the message build_tx built.
C6_RoundTrip ==
  (stdout.transport # NoneV /\ locals.message # NoneV) =>
    LET read == Decode(stdout.transport[1])
    IN  read.ok /\ read.val = locals.message[1]

\* A proposal's message is printed, and its string ends in padding.
C6_Witness ==
  /\ IsCreateTransaction
  /\ stdout.transport # NoneV
  /\ stdout.transport[1][Len(stdout.transport[1])] = Pad

\* C7: when the backend fails to sign, the signer tool ends with an error and
\* prints no signature; a signature printed is the backend's over the decoded
\* bytes.
C7_SignFailureAborts ==
  /\ (cmd.name = "sign" /\ device \in SignOutcomes \ {"ok"}) =>
       /\ Failing
       /\ stdout.signature = NoneV
       /\ "Message signed" \notin Range(stdout.lines)
  /\ (cmd.name = "sign" /\ stdout.signature # NoneV) =>
       stdout.signature[1]
         = Sign(locals.signer[1].key, Base64Decode(cmd.transaction).val)

\* C8: when create-token-transfer-transaction goes through for an amount
\* n / 10^k of an asset of d >= k decimals, the proposal wraps a transfer of
\* n * 10^(d - k) base units from the source to the destination under the
\* authority of the multisig's program-derived address.
C8_ExactBaseUnits ==
  (IsCreateTransaction /\ pc = "done" /\ result = "Ok"
     /\ cmd.amount_text[2] <= locals.from_account[1].token_amount.decimals) =>
    LET t == locals.transfer[1]
        d == locals.from_account[1].token_amount.decimals
        m == locals.message[1]
    IN  /\ t.program_id = TokenProgram
        /\ t.data = <<TransferTag>>
                      \o LEBytes(cmd.amount_text[1] * Pow(10, d - cmd.amount_text[2]), 8)
        /\ PubkeysOf(t.accounts)
             = <<cmd.from, cmd.to, derive_multisig_signer(cmd.multisig, Pid).address>>
        /\ t.accounts[3].pubkey \notin Owners \cup Signers
        /\ m.instructions[Len(m.instructions)].data
             = CreateTransactionData(TokenProgram, t.accounts, t.data)

\* C9: a message a building command emits carries the --nonce value as its
\* blockhash and the --signer as fee payer; its first instruction advances the
\* --nonce-account under the authority of the --signer, and the command's own
\* instructions follow in the order they were built.
C9_NonceAnchored ==
  (cmd.name \in Builders /\ locals.message # NoneV) =>
    LET m     == locals.message[1]
        built == locals.instructions[1]
    IN  /\ m.recent_blockhash = cmd.signer.nonce
        /\ m.account_keys[1] = cmd.signer.signer
        /\ m.header.num_required_signatures >= 1
        /\ Len(m.instructions) = Len(built) + 1
        /\ ProgramOf(m, m.instructions[1]) = SystemProgram
        /\ m.instructions[1].data = <<AdvanceNonceTag, 0, 0, 0>>
        /\ KeysOf(m, m.instructions[1])
             = <<cmd.signer.nonce_account, RecentBlockhashes, cmd.signer.signer>>
        /\ \A i \in DOMAIN built :
             /\ ProgramOf(m, m.instructions[i + 1]) = built[i].program_id
             /\ KeysOf(m, m.instructions[i + 1]) = PubkeysOf(built[i].accounts)
             /\ m.instructions[i + 1].data = built[i].data

\* The second signer executes a proposal against a nonce value other than the
\* default blockhash.
C9_Witness ==
  /\ IsExecute
  /\ locals.message # NoneV
  /\ cmd.signer.signer = 11
  /\ cmd.signer.nonce = MaxNonce

CreateTransactionOrder ==
  <<"fetch_from", "fetch_to", "check_mint", "check_balance", "convert_amount",
    "build_transfer", "rent_lookup", "build_instructions", "build_tx">>

ExecuteOrder ==
  <<"fetch_transaction", "fetch_from", "unpack", "build_instructions", "build_tx">>

\* C10: the calls of create-token-transfer-transaction and of execute are made
\* in their order; the transfer is built and the rent looked up after both
\* fetches and both checks went through; a transport string is printed only after every fetch and
\* check went through; a fetch or lookup that yields nothing, and every error,
\* ends the command with nothing to transport.
C10_DependencyOrder ==
  /\ IsCreateTransaction => IsPrefix(steps, CreateTransactionOrder)
  /\ IsExecute => IsPrefix(steps, ExecuteOrder)
  /\ (IsCreateTransaction /\ "build_transfer" \in Range(steps)) =>
       /\ BothAccountsFetched
       /\ locals.from_account[1].mint = locals.to_account[1].mint
       /\ locals.from_account[1].token_amount.ui_amount # NoneV
       /\ ~AmountExceedsBalance
  /\ (cmd.name \in Builders /\ stdout.transport # NoneV) =>
       /\ result = "Ok"
       /\ steps[Len(steps)] = "build_tx"
       /\ IsCreateTransaction => "rent_lookup" \in Range(steps) /\ locals.rent # NoneV
       /\ cmd.name = "create-multisig" => locals.rent # NoneV
       /\ IsExecute =>
            /\ locals.transaction_account # NoneV
            /\ locals.from_account # NoneV
            /\ Len(locals.transaction_account[1].data) >= 9
            /\ locals.transaction_account[1].data[1] = TransferTag
  /\ (cmd.name \in Builders /\ Failing) =>
       pc = "done" /\ stdout.transport = NoneV /\ locals.message = NoneV
  /\ (cmd.name \in Builders /\ "fetch_from" \in Range(steps)
        /\ locals.from_account = NoneV) => Failing
  /\ (cmd.name \in Builders /\ "fetch_to" \in Range(steps)
        /\ locals.to_account = NoneV) => Failing
  /\ (cmd.name \in Builders /\ "rent_lookup" \in Range(steps)
        /\ locals.rent = NoneV) => Failing
  /\ (cmd.name \in Builders /\ "fetch_transaction" \in Range(steps)
        /\ locals.transaction_account = NoneV) => Failing

\* A proposal is built to the end, every call made.
C10_Witness ==
  /\ IsCreateTransaction
  /\ steps = CreateTransactionOrder
  /\ stdout.transport # NoneV
  /\ result = "Ok"

====
